---- MODULE Spec2Model ----
(***************************************************************************)
(* Model of src/main.py: the eWeLink relay backend.                        *)
(*                                                                         *)
(* State: the cookie sessions (oauth_state, access_token, refresh_token),  *)
(* the ConnectionManager registry active_connections, the /ws handlers     *)
(* (one coroutine per websocket), the /api/get-data handlers (one          *)
(* coroutine per request).  The handlers that never suspend (/login,        *)
(* /callback, /logout, /api/status) are given by their result: the         *)
(* response and the session they leave.                                    *)
(*                                                                         *)
(* Handlers are cut at their awaits only: websocket.accept() in            *)
(* ConnectionManager.connect and websocket.send_json() in                  *)
(* ConnectionManager.send_json_message.  requests.get / requests.post are  *)
(* blocking calls, so the code around them runs without interleaving.      *)
(***************************************************************************)
EXTENDS Naturals, Sequences, FiniteSets

\* ---------------------------------------------------------------- bounds
MaxSockets == 2
MaxTriggers == 1

\* ---------------------------------------------------------------- values
None == "None"
\* the target of a send_json_message that found no websocket
NoSocket == 0
Sessions == {"s1", "s2"}
Tokens == {"tokA", "tokB"}
RefreshTokens == {"rt"}
\* the value secrets.token_urlsafe draws in /login
OAuthStates == {"st1"}
\* the state parameter a /callback request can carry: a drawn one, another, none
StateParams == OAuthStates \cup {"forged", None}
Codes == {"code"}
Payloads == {"p1", "p2"}
Sockets == 1..MaxSockets
Requests == 1..MaxTriggers

\* What the vendor's token endpoint can answer to requests.post(token_url).
ExchangeOutcomes == {"network_error", "http_error", "bad_json", "ok"}
\* What the vendor's device endpoint can answer to requests.get(api_url).
FetchOutcomes == {"network_error", "http_error", "bad_json", "ok"}
\* response.json() of the token endpoint; .get() gives None for a missing key.
NoTokenData == [accessToken |-> None, refreshToken |-> None]
TokenData == [accessToken : Tokens, refreshToken : RefreshTokens] \cup {NoTokenData}

VARIABLES
    session,             \* request.session of each browser session
    active_connections,  \* manager.active_connections, as a set of <<token, websocket>>
    ws,                  \* the /ws handler of each websocket and its client's end
    delivered,           \* what each websocket's client has received
    trig,                \* the /api/get-data handler of each request
    replaced             \* history: websockets whose binding a later connect overwrote

vars == <<session, active_connections, ws, delivered, trig, replaced>>

\* ------------------------------------------------ ConnectionManager (pure)

\* token in self.active_connections
Bound(ac, token) == \E p \in ac : p[1] = token

\* self.active_connections[token]
Lookup(ac, token) == {p[2] : p \in {q \in ac : q[1] = token}}

\* faulty variant of connect: the new websocket is added beside the old one
connect_keeps_old(ac, websocket, token) == ac \cup {<<token, websocket>>}

\* self.active_connections[token] = websocket (after the accept)
connect(ac, websocket, token) ==
    {p \in ac : p[1] # token} \cup {<<token, websocket>>}

\* faulty variant of disconnect: the whole mapping is dropped
disconnect_all(ac, token) == {}

\* faulty variant of disconnect: nothing is removed
disconnect_noop(ac, token) == ac

\* if token in self.active_connections: del self.active_connections[token]
disconnect(ac, token) ==
    IF Bound(ac, token) THEN {p \in ac : p[1] # token} ELSE ac

\* faulty variant of send_json_message: the token is ignored, the message goes
\* to any registered websocket
send_json_message_any(ac, token) ==
    IF ac # {}
    THEN {[target |-> p[2], res |-> "pending"] : p \in ac}
    ELSE {[target |-> NoSocket, res |-> "noop"]}

\* faulty variant of send_json_message: no membership test, the lookup of an
\* unbound token raises
send_json_message_nocheck(ac, token) ==
    IF Bound(ac, token)
    THEN {[target |-> w, res |-> "pending"] : w \in Lookup(ac, token)}
    ELSE {[target |-> NoSocket, res |-> "raised"]}

\* send_json_message up to its await: the membership test and the lookup run
\* without suspension; the result is the send that is started, if any.
send_json_message(ac, token) ==
    IF Bound(ac, token)
    THEN {[target |-> w, res |-> "pending"] : w \in Lookup(ac, token)}
    ELSE {[target |-> NoSocket, res |-> "noop"]}

\* ------------------------------------------------------------------ Init

NoSession == [oauth_state |-> None, access_token |-> None, refresh_token |-> None]
IdleSocket == [pc |-> "unused", session |-> None, token |-> None, alive |-> FALSE]
IdleTrigger == [pc |-> "idle", token |-> None, fetch |-> "none", data |-> None,
                msg |-> None, target |-> NoSocket, res |-> "none", status |-> 0,
                branch |-> "none", fetches |-> 0, sends |-> 0]

Init ==
    /\ session = [s \in Sessions |-> NoSession]
    /\ active_connections = {}
    /\ ws = [w \in Sockets |-> IdleSocket]
    /\ delivered = [w \in Sockets |-> <<>>]
    /\ trig = [r \in Requests |-> IdleTrigger]
    /\ replaced = {}

\* ------------------------------------------------------------ HTTP routes

\* GET /login
login(s, state) ==
    /\ session' = [session EXCEPT ![s].oauth_state = state]
    /\ UNCHANGED <<active_connections, ws, delivered, trig, replaced>>

\* faulty variant of the state test: a missing state is not refused
InvalidState_mismatch_only(sess, state) == state # sess.oauth_state

\* if not state or state != request.session.get('oauth_state')
InvalidState(sess, state) == state = None \/ state # sess.oauth_state

\* faulty variant of the try block: a failed exchange drops the stored token
exchange_drops_token(sess, outcome, token_data) ==
    IF outcome # "ok"
    THEN [status |-> 500, exchange |-> TRUE,
          session |-> [sess EXCEPT !.access_token = None]]
    ELSE [status |-> 307, exchange |-> TRUE,
          session |-> [sess EXCEPT !.access_token = token_data.accessToken,
                                   !.refresh_token = token_data.refreshToken]]

\* the try block of /callback: the response and the session it leaves.  A
\* failing requests.post, raise_for_status and response.json() all raise a
\* RequestException, which becomes the 500.
exchange(sess, outcome, token_data) ==
    IF outcome # "ok"
    THEN [status |-> 500, exchange |-> TRUE, session |-> sess]
    ELSE [status |-> 307, exchange |-> TRUE,
          session |-> [sess EXCEPT !.access_token = token_data.accessToken,
                                   !.refresh_token = token_data.refreshToken]]

\* the handler of /callback: its response status, whether it called the
\* token endpoint, and the session it leaves
callback_result(sess, code, state, outcome, token_data) ==
    IF InvalidState(sess, state)
    THEN [status |-> 400, exchange |-> FALSE, session |-> sess]
    ELSE IF code = None
    THEN [status |-> 400, exchange |-> FALSE, session |-> sess]
    ELSE exchange(sess, outcome, token_data)

\* the answers of the token endpoint to one request: its outcome and, when
\* the outcome is "ok", the parsed body
Answers ==
    {[outcome |-> o, token_data |-> NoTokenData] : o \in ExchangeOutcomes \ {"ok"}}
        \cup {[outcome |-> "ok", token_data |-> d] : d \in TokenData}

\* The answers one /callback request can meet: none but a placeholder when
\* the handler ends before it calls the token endpoint.
AnswersFor(sess, code, state) ==
    IF callback_result(sess, code, state, "ok", NoTokenData).exchange
    THEN Answers
    ELSE {[outcome |-> "ok", token_data |-> NoTokenData]}

\* GET /callback
callback(s, code, state) ==
    /\ \E a \in AnswersFor(session[s], code, state) :
         session' = [session EXCEPT ![s] =
                       callback_result(session[s], code, state,
                                       a.outcome, a.token_data).session]
    /\ UNCHANGED <<active_connections, ws, delivered, trig, replaced>>

\* GET /logout
logout(s) ==
    /\ session' = [session EXCEPT ![s] = NoSession]
    /\ UNCHANGED <<active_connections, ws, delivered, trig, replaced>>

\* GET /api/status: the body of the response
get_status(sess) == [authenticated |-> sess.access_token # None]

\* ------------------------------------------------------ GET /api/get-data

\* faulty variant of the pushed message: the error descriptor in both branches
Message_error(fetch, data) == [kind |-> "error", body |-> "error_details"]

\* data on success, error_details in the except branch
Message(fetch, data) ==
    IF fetch = "ok" THEN [kind |-> "data", body |-> data]
    ELSE [kind |-> "error", body |-> "error_details"]

\* faulty variant of the final status: the except branch does not re-raise
FinalStatus_ok(fetch) == 200

\* the handler's status when nothing else is raised: the return of line 144,
\* or the HTTPException(500) of line 149
FinalStatus(fetch) == IF fetch = "ok" THEN 200 ELSE 500

\* raise_for_status and response.json() raise a RequestException (requests'
\* JSONDecodeError is one), as a failing requests.get does: one except branch
Fetched(outcome) == IF outcome = "ok" THEN "ok" ELSE "failed"

\* faulty variant of the token test of /api/get-data: never refuses
NotAuthenticated_never(access_token) == FALSE

\* if not access_token (line 123)
NotAuthenticated(access_token) == access_token = None

\* trigger_get_data up to its first await (the send), or to its end when it
\* does not suspend: the 401, or a send_json_message that found no binding.
trigger_get_data(r, s) ==
    /\ trig[r].pc = "idle"
    /\ \A q \in Requests : q < r => trig[q].pc # "idle"
    /\ LET access_token == session[s].access_token IN
       IF NotAuthenticated(access_token)
       THEN trig' = [trig EXCEPT ![r] = [IdleTrigger EXCEPT !.pc = "done", !.status = 401]]
       ELSE \E outcome \in FetchOutcomes :
            \E payload \in (IF outcome = "ok" THEN Payloads ELSE {None}) :
            \E b \in send_json_message(active_connections, access_token) :
              trig' = [trig EXCEPT ![r] =
                         [pc |-> IF b.res = "pending" THEN "sending" ELSE "done",
                          token |-> access_token, fetch |-> Fetched(outcome),
                          data |-> payload,
                          msg |-> Message(Fetched(outcome), payload), target |-> b.target,
                          res |-> b.res,
                          status |-> IF b.res = "pending" THEN 0
                                     ELSE IF b.res = "noop" THEN FinalStatus(Fetched(outcome))
                                     ELSE 500,
                          branch |-> IF Fetched(outcome) = "ok" THEN "try" ELSE "except",
                          fetches |-> 1,
                          sends |-> IF b.res = "pending" THEN 1 ELSE 0]]
    /\ UNCHANGED <<session, active_connections, ws, delivered, replaced>>

\* What awaiting websocket.send_json gives: the message reaches a client that
\* is still there; towards a client that has gone the server either raises or
\* drops the message, depending on the ASGI server.
SendResults(sock) == IF sock.alive THEN {"sent"} ELSE {"raised", "lost"}

\* the exception a failing websocket.send_json raises: WebSocketDisconnect
\* or RuntimeError, neither of them a requests exception
SendError == "WebSocketDisconnect"

\* faulty variant of the except clause: it catches every exception
ExceptCatches_all(exc) == TRUE

\* except requests.exceptions.RequestException (line 145)
ExceptCatches(exc) == exc = "RequestException"

\* The rest of trigger_get_data, once the awaited send_json is over.  An
\* exception of the send raised inside the try block meets the except clause:
\* were it caught, the except branch would send error_details; an exception
\* raised inside the except branch leaves the handler.
send_complete(r) ==
    /\ trig[r].pc = "sending"
    /\ \E res \in SendResults(ws[trig[r].target]) :
         IF res = "raised" /\ trig[r].branch = "try" /\ ExceptCatches(SendError)
         THEN /\ \E b \in send_json_message(active_connections, trig[r].token) :
                   trig' = [trig EXCEPT
                              ![r].branch = "except",
                              ![r].msg = Message("failed", None),
                              ![r].target = b.target,
                              ![r].res = b.res,
                              ![r].pc = IF b.res = "pending" THEN "sending" ELSE "done",
                              ![r].sends = IF b.res = "pending" THEN @ + 1 ELSE @,
                              ![r].status = IF b.res = "pending" THEN 0 ELSE 500]
              /\ delivered' = delivered
         ELSE /\ trig' = [trig EXCEPT ![r].pc = "done", ![r].res = res,
                                      ![r].status = IF res = "raised" THEN 500
                                                    ELSE FinalStatus(trig[r].fetch)]
              /\ delivered' = IF res = "sent"
                              THEN [delivered EXCEPT ![trig[r].target] =
                                      Append(@, [req |-> r, kind |-> trig[r].msg.kind,
                                                 body |-> trig[r].msg.body])]
                              ELSE delivered
    /\ UNCHANGED <<session, active_connections, ws, replaced>>

\* ------------------------------------------------------------------- /ws

\* faulty variant of the token test of /ws: never refuses
NoToken_never(access_token) == FALSE

\* if not access_token (line 163)
NoToken(access_token) == access_token = None

\* websocket_endpoint up to its first await: close(1008) without a token,
\* otherwise manager.connect up to the accept.
websocket_endpoint(w, s) ==
    /\ ws[w].pc = "unused"
    /\ \A v \in Sockets : v < w => ws[v].pc # "unused"
    /\ LET access_token == session[s].access_token IN
       ws' = [ws EXCEPT ![w] =
                IF NoToken(access_token)
                THEN [pc |-> "rejected", session |-> s, token |-> None, alive |-> FALSE]
                ELSE [pc |-> "accepting", session |-> s, token |-> access_token,
                      alive |-> TRUE]]
    /\ UNCHANGED <<session, active_connections, delivered, trig, replaced>>

\* the accept is over: manager.connect stores the websocket and the handler
\* enters its receive loop
accepted(w) ==
    /\ ws[w].pc = "accepting"
    /\ active_connections' = connect(active_connections, w, ws[w].token)
    /\ replaced' = replaced \cup (Lookup(active_connections, ws[w].token) \ {w})
    /\ ws' = [ws EXCEPT ![w].pc = "open"]
    /\ UNCHANGED <<session, delivered, trig>>

\* the client closes or loses its end of the channel
client_drop(w) ==
    /\ ws[w].pc = "open"
    /\ ws[w].alive
    /\ ws' = [ws EXCEPT ![w].alive = FALSE]
    /\ UNCHANGED <<session, active_connections, delivered, trig, replaced>>

\* receive_text raises WebSocketDisconnect: manager.disconnect(access_token)
on_disconnect(w) ==
    /\ ws[w].pc = "open"
    /\ ~ws[w].alive
    /\ active_connections' = disconnect(active_connections, ws[w].token)
    /\ ws' = [ws EXCEPT ![w].pc = "closed"]
    /\ UNCHANGED <<session, delivered, trig, replaced>>

Next ==
    \/ \E s \in Sessions, state \in OAuthStates : login(s, state)
    \/ \E s \in Sessions, code \in Codes \cup {None}, state \in StateParams :
            callback(s, code, state)
    \/ \E s \in Sessions : logout(s)
    \/ \E r \in Requests, s \in Sessions : trigger_get_data(r, s)
    \/ \E r \in Requests : send_complete(r)
    \/ \E w \in Sockets, s \in Sessions : websocket_endpoint(w, s)
    \/ \E w \in Sockets : accepted(w)
    \/ \E w \in Sockets : client_drop(w)
    \/ \E w \in Sockets : on_disconnect(w)

Spec == Init /\ [][Next]_vars

\* The event loop resumes a /ws handler whose receive_text has a disconnect
\* to raise: the handler's except branch is not postponed for ever.
FairSpec == Spec /\ \A w \in Sockets : WF_vars(on_disconnect(w))

\* ---------------------------------------------------------------- claims

\* A step that starts request r of /api/get-data (its handler leaves "idle").
Starts(r) == trig[r].pc = "idle" /\ trig'[r].pc # "idle"
\* A step in which the awaited send of request r ends.
Completes(r) == trig[r].pc = "sending" /\ trig'[r].pc = "done"
\* The messages of request r that websocket w's client has received.
Received(dl, w, r) == {i \in 1..Len(dl[w]) : dl[w][i].req = r}

\* C1: in every reachable state each identifier is bound to at most one
\* connection in active_connections.
C1_AtMostOneBinding ==
    \A token \in Tokens : Cardinality(Lookup(active_connections, token)) <= 1

\* C1 witness: a second connect for an identifier has replaced the first and
\* the identifier is bound.
C1_Witness ==
    \E w \in replaced : Bound(active_connections, ws[w].token)

\* C2: once a connect for the same identifier has overwritten a connection's
\* binding, that connection is never bound again and no send that starts
\* afterwards targets it.
C2_ReplacedUnreachable ==
    [][ /\ \A w \in replaced' : w \notin Lookup(active_connections', ws'[w].token)
        /\ \A r \in Requests :
             (Starts(r) /\ trig'[r].target # NoSocket) => trig'[r].target \notin replaced
      ]_vars

\* C2 witness: a connection was replaced while its client is still there, a
\* send for its identifier was delivered to the other connection, and the
\* replaced one received nothing.
C2_Witness ==
    \E w \in replaced, r \in Requests :
        /\ ws[w].alive
        /\ trig[r].pc = "done" /\ trig[r].res = "sent"
        /\ trig[r].token = ws[w].token /\ trig[r].target # w
        /\ delivered[w] = <<>>

\* C3: send_json_message for an identifier with no bound connection returns
\* normally, delivers nothing, keeps nothing for a later delivery (the
\* handler ends at once, and every message a client has received was sent to
\* the connection its request had looked up) and leaves active_connections
\* unchanged.
C3_SendUnboundIsNoop ==
    [][ \A r \in Requests :
          (Starts(r) /\ trig'[r].token # None
                     /\ ~Bound(active_connections, trig'[r].token))
          => /\ trig'[r].res = "noop" /\ trig'[r].pc = "done"
             /\ trig'[r].target = NoSocket
             /\ trig'[r].status = IF trig'[r].fetch = "ok" THEN 200 ELSE 500
             /\ delivered' = delivered
             /\ active_connections' = active_connections
             /\ \A w \in Sockets : \A i \in 1..Len(delivered'[w]) :
                    trig'[delivered'[w][i].req].target = w
      ]_vars

\* C3 witness: a request whose fetch succeeded found no connection and ended
\* with its success status; a connection bound later under the same
\* identifier has received nothing.
C3_Witness ==
    \E r \in Requests, w \in Sockets :
        /\ trig[r].pc = "done" /\ trig[r].res = "noop"
        /\ trig[r].fetch = "ok" /\ trig[r].status = 200
        /\ <<trig[r].token, w>> \in active_connections
        /\ ws[w].alive /\ delivered[w] = <<>>

\* C4: disconnect(id) leaves id unbound, leaves every other identifier's
\* binding as it was, and changes nothing when id had no binding; the
\* handler ends normally.
C4_DisconnectFrame ==
    [][ \A w \in Sockets :
          (ws[w].pc = "open" /\ ws'[w].pc = "closed")
          => /\ ~Bound(active_connections', ws[w].token)
             /\ \A token \in Tokens \ {ws[w].token} :
                    Lookup(active_connections', token) = Lookup(active_connections, token)
             /\ (~Bound(active_connections, ws[w].token)
                    => active_connections' = active_connections)
      ]_vars

\* C4 witness: two connections of one identifier, the first replaced by the
\* second, have both been disconnected: one of the two disconnects found no
\* binding.
C4_Witness ==
    \E w \in replaced : \E v \in Sockets \ {w} :
        /\ ws[w].pc = "closed" /\ ws[v].pc = "closed"
        /\ ws[w].token = ws[v].token

\* C5: a trigger of a session whose open connection is the one bound to the
\* session's token, with a successful fetch, sends exactly the fetched
\* payload to that connection; when the send ends with the client still
\* there, the payload is what the client receives next and the response is
\* the success status.
C5_PushDelivered ==
    [][ /\ \A r \in Requests, s \in Sessions, w \in Sockets :
             ( /\ trigger_get_data(r, s)
               /\ trig'[r].fetch = "ok"
               /\ ws[w].pc = "open" /\ ws[w].session = s
               /\ ws[w].token = session[s].access_token
               /\ <<ws[w].token, w>> \in active_connections )
             => /\ trig'[r].pc = "sending" /\ trig'[r].target = w
                /\ trig'[r].msg = [kind |-> "data", body |-> trig'[r].data]
        /\ \A r \in Requests :
             (Completes(r) /\ trig[r].fetch = "ok" /\ ws[trig[r].target].alive)
             => /\ delivered'[trig[r].target]
                      = Append(delivered[trig[r].target],
                               [req |-> r, kind |-> "data", body |-> trig[r].data])
                /\ trig'[r].status = 200
      ]_vars

\* C5 witness: a request with a successful fetch has ended with status 200
\* and its payload is the one message the session's open connection received.
C5_Witness ==
    \E r \in Requests, w \in Sockets, s \in Sessions :
        /\ trig[r].pc = "done" /\ trig[r].fetch = "ok" /\ trig[r].status = 200
        /\ trig[r].target = w /\ ws[w].session = s /\ ws[w].pc = "open"
        /\ session[s].access_token = ws[w].token
        /\ delivered[w] = <<[req |-> r, kind |-> "data", body |-> trig[r].data]>>

\* C6: when the fetch of an authenticated trigger fails, the error payload is
\* sent to the connection bound to the session's token if there is one, the
\* response is 500 however the send ends, a client that is still there
\* receives the error payload, and no success payload is delivered for that
\* trigger.
C6_FetchFailure ==
    [][ /\ \A r \in Requests :
             (Starts(r) /\ trig'[r].fetch = "failed")
             => /\ trig'[r].msg.kind = "error"
                /\ IF Bound(active_connections, trig'[r].token)
                   THEN /\ trig'[r].pc = "sending"
                        /\ trig'[r].target \in Lookup(active_connections, trig'[r].token)
                   ELSE trig'[r].pc = "done" /\ trig'[r].status = 500
        /\ \A r \in Requests :
             (Completes(r) /\ trig[r].fetch = "failed")
             => /\ trig'[r].status = 500
                /\ ws[trig[r].target].alive
                     => delivered'[trig[r].target]
                          = Append(delivered[trig[r].target],
                                   [req |-> r, kind |-> "error", body |-> "error_details"])
        /\ \A r \in Requests, w \in Sockets :
             trig'[r].fetch = "failed"
             => \A i \in Received(delivered', w, r) : delivered'[w][i].kind = "error"
      ]_vars

\* C6 witness: a request whose fetch failed has ended with status 500 and the
\* error payload is what the bound connection received.
C6_Witness ==
    \E r \in Requests :
        /\ trig[r].pc = "done" /\ trig[r].fetch = "failed" /\ trig[r].status = 500
        /\ trig[r].target # NoSocket
        /\ delivered[trig[r].target]
             = <<[req |-> r, kind |-> "error", body |-> "error_details"]>>

\* C7: a trigger of a session without an access token ends with 401, with no
\* upstream fetch, no send, and nothing delivered for it to any connection.
C7_Unauthenticated ==
    \A r \in Requests :
        (trig[r].pc # "idle" /\ trig[r].token = None)
        => /\ trig[r].pc = "done" /\ trig[r].status = 401
           /\ trig[r].fetch = "none" /\ trig[r].res = "none" /\ trig[r].target = NoSocket
           /\ \A w \in Sockets : Received(delivered, w, r) = {}

\* C7 witness: a trigger was answered 401 while a connection with a client
\* was registered, and that connection received nothing.
C7_Witness ==
    \E r \in Requests, w \in Sockets :
        /\ trig[r].pc = "done" /\ trig[r].status = 401
        /\ ws[w].pc = "open" /\ ws[w].alive
        /\ <<ws[w].token, w>> \in active_connections
        /\ delivered[w] = <<>>

\* C8 as stated: a trigger of an authenticated session with no connection
\* bound to its token is answered 403 and no fetch is attempted.
C8_NoRecipient403 ==
    [][ \A r \in Requests :
          (Starts(r) /\ trig'[r].token # None
                     /\ ~Bound(active_connections, trig'[r].token))
          => trig'[r].status = 403 /\ trig'[r].fetch = "none"
      ]_vars

\* C8 amended: a trigger of an authenticated session with no connection bound
\* to its token does attempt the fetch and is answered 200 when the fetch
\* succeeds and 500 when it fails, never 403; nothing is delivered.
C8_NoRecipientFetches ==
    [][ \A r \in Requests :
          (Starts(r) /\ trig'[r].token # None
                     /\ ~Bound(active_connections, trig'[r].token))
          => /\ trig'[r].fetch \in {"ok", "failed"}
             /\ (trig'[r].fetch = "ok" => trig'[r].status = 200)
             /\ (trig'[r].fetch = "failed" => trig'[r].status = 500)
             /\ \A w \in Sockets : Received(delivered', w, r) = {}
      ]_vars

\* C8 witness: an authenticated trigger that found no connection has ended
\* with status 200 after a successful fetch, and no connection was ever opened.
C8_Witness ==
    \E r \in Requests :
        /\ trig[r].pc = "done" /\ trig[r].token # None /\ trig[r].res = "noop"
        /\ trig[r].fetch = "ok" /\ trig[r].status = 200
        /\ \A w \in Sockets : ws[w].pc = "unused"

\* The requests /callback can receive and the answers it can get.
CallbackInputs ==
    [code : Codes \cup {None}, state : StateParams, answer : Answers]
\* The result of /callback for session s on input x.
CallbackOn(s, x) ==
    callback_result(session[s], x.code, x.state, x.answer.outcome, x.answer.token_data)
\* The state parameter is missing or differs from the stored oauth_state.
StateRefused(s, x) == x.state = None \/ x.state # session[s].oauth_state

\* C9 as stated: a /callback whose state is missing or differs from the
\* session's oauth_state is answered 403.
C9_InvalidState403 ==
    \A s \in Sessions, x \in CallbackInputs :
        StateRefused(s, x) => CallbackOn(s, x).status = 403

\* C9 amended: a /callback whose state is missing or differs from the
\* session's oauth_state is answered 400.
C9_InvalidState400 ==
    \A s \in Sessions, x \in CallbackInputs :
        StateRefused(s, x) => CallbackOn(s, x).status = 400

\* C9 witness: a session that went through /login and a successful /callback
\* gets 400 for a forged state and for a missing one, with a code present.
C9_Witness ==
    \E s \in Sessions :
        /\ session[s].oauth_state \in OAuthStates
        /\ session[s].access_token \in Tokens
        /\ \A x \in CallbackInputs :
              (x.code \in Codes /\ x.state \in {"forged", None})
              => CallbackOn(s, x).status = 400

\* C10: a /callback that fails (400 or 500) leaves the session as it was, so
\* /api/status reports what it reported before, and when the state is
\* missing or differs no token exchange is attempted.
C10_FailedCallbackFrame ==
    \A s \in Sessions, x \in CallbackInputs :
        CallbackOn(s, x).status # 307
        => /\ CallbackOn(s, x).status \in {400, 500}
           /\ CallbackOn(s, x).session = session[s]
           /\ get_status(CallbackOn(s, x).session) = get_status(session[s])
           /\ StateRefused(s, x) => ~CallbackOn(s, x).exchange

\* C10 witness: an authenticated session whose next /callback, with the
\* stored state and a code, fails in the token exchange with 500.
C10_Witness ==
    \E s \in Sessions, x \in CallbackInputs :
        /\ session[s].access_token \in Tokens
        /\ x.state = session[s].oauth_state /\ x.code \in Codes
        /\ x.answer.outcome = "http_error"
        /\ CallbackOn(s, x).status = 500 /\ CallbackOn(s, x).exchange

\* C11: a /ws connection attempted by a session without an access token is
\* closed and never enters active_connections; every websocket in the
\* registry is bound under the access token its session held when it
\* connected, and its handler is in the receive loop.
C11_OnlyAuthenticatedRegistered ==
    /\ \A w \in Sockets :
          (ws[w].pc # "unused" /\ ws[w].token = None)
          => /\ ws[w].pc = "rejected"
             /\ \A p \in active_connections : p[2] # w
    /\ \A p \in active_connections :
          /\ p[1] \in Tokens
          /\ ws[p[2]].token = p[1]
          /\ ws[p[2]].pc = "open"

\* C11 witness: one connection attempt was refused for want of a token while
\* another websocket is registered.
C11_Witness ==
    \E w \in Sockets, v \in Sockets :
        /\ ws[w].pc = "rejected"
        /\ <<ws[v].token, v>> \in active_connections

\* Websocket w is bound to no identifier in the registry.
Unbound(w) == \A p \in active_connections : p[2] # w

\* C12: a registered connection whose client has disconnected is eventually
\* seen by its /ws handler, and from then on it is bound to no identifier,
\* also when a later connection for the same identifier had replaced it.
C12_DisconnectedUnbound ==
    /\ \A w \in Sockets :
          (ws[w].pc = "open" /\ ~ws[w].alive) ~> (ws[w].pc = "closed" /\ Unbound(w))
    /\ [](\A w \in Sockets : ws[w].pc = "closed" => Unbound(w))

\* C12 witness: a connection that had been replaced by a later one for the
\* same identifier was disconnected, its handler has ended, and it is unbound.
C12_Witness ==
    \E w \in replaced : ws[w].pc = "closed" /\ Unbound(w)

\* C13 as stated: /api/status says authenticated exactly when the session
\* holds an access token; it says false for a session without one (before
\* any /callback, after /logout) and true after a /callback that ended in
\* its success response.
C13_StatusFollowsCallback ==
    /\ get_status(NoSession).authenticated = FALSE
    /\ \A s \in Sessions :
          /\ get_status(session[s]).authenticated = (session[s].access_token # None)
          /\ \A x \in CallbackInputs :
                CallbackOn(s, x).status = 307
                => get_status(CallbackOn(s, x).session).authenticated

\* C14 as stated: a trigger of a session is routed to the registry key under
\* which the session's still open, still registered connection was
\* registered, whatever /login and /callback calls the session made since.
C14_StableRoutingKey ==
    [][ \A r \in Requests, s \in Sessions, w \in Sockets :
          ( /\ trigger_get_data(r, s)
            /\ session[s].access_token # None
            /\ ws[w].session = s /\ ws[w].pc = "open" /\ ws[w].alive
            /\ <<ws[w].token, w>> \in active_connections )
          => trig'[r].token = ws[w].token /\ trig'[r].target = w
      ]_vars

\* C15 as stated: the response of an authenticated trigger depends on the
\* fetch outcome alone, so it is the one a session without a registered
\* connection gets: 200 after a successful fetch, 500 after a failed one.
C15_ResponseIgnoresRegistry ==
    \A r \in Requests :
        (trig[r].pc = "done" /\ trig[r].token # None)
        => trig[r].status = IF trig[r].fetch = "ok" THEN 200 ELSE 500

\* C16 as stated: the entry of a registered websocket leaves the registry
\* only when that websocket's own handler disconnects or when a later
\* connect for the identifier replaces it.
C16_RemovedOnlyByOwner ==
    [][ \A w \in Sockets :
          ( /\ <<ws[w].token, w>> \in active_connections
            /\ <<ws[w].token, w>> \notin active_connections' )
          => ws'[w].pc = "closed" \/ w \in replaced'
      ]_vars

\* C17 as stated: when the send to a registered websocket fails, the
\* websocket's entry is no longer in the registry once the handler has ended.
C17_FailedSendUnregisters ==
    [][ \A r \in Requests :
          (Completes(r) /\ trig'[r].res = "raised")
          => trig[r].target \notin Lookup(active_connections', trig[r].token)
      ]_vars

\* the messages request r delivered, as <<websocket, position>> pairs
DeliveredFor(r) ==
    UNION {{<<w, i>> : i \in {j \in DOMAIN delivered[w] : delivered[w][j].req = r}}
             : w \in Sockets}

\* C18: one invocation of /api/get-data calls the upstream at most once and
\* starts at most one send, to one websocket, after the fetch is over; it
\* delivers at most one message, the data after a successful fetch and the
\* error descriptor after a failed one; a send that failed is not repeated.
C18_AtMostOnce ==
    \A r \in Requests :
        /\ trig[r].fetches <= 1
        /\ trig[r].sends <= 1
        /\ trig[r].sends = 1 => /\ trig[r].fetches = 1
                                /\ trig[r].fetch \in {"ok", "failed"}
                                /\ trig[r].target \in Sockets
        /\ Cardinality(DeliveredFor(r)) <= trig[r].sends
        /\ \A p \in DeliveredFor(r) :
              /\ p[1] = trig[r].target
              /\ delivered[p[1]][p[2]].kind =
                    IF trig[r].fetch = "ok" THEN "data" ELSE "error"

\* a send of the try block failed and the handler has ended after that one send
C18_Witness ==
    \E r \in Requests :
        /\ trig[r].pc = "done" /\ trig[r].res = "raised" /\ trig[r].fetch = "ok"
        /\ trig[r].fetches = 1 /\ trig[r].sends = 1

\* C19: whatever the interleaving of the handlers at their awaits, a send
\* that starts goes to the websocket bound to the token at that moment, or is
\* a no-op when none is bound, and never fails in the lookup; a message is
\* delivered to the websocket the send started with; a connect leaves its
\* websocket as the token's only binding, a disconnect leaves the token
\* unbound, neither touches another token, and no other step changes the
\* registry.
C19_AtomicReplacement ==
    [][ /\ \A r \in Requests, s \in Sessions :
              (trigger_get_data(r, s) /\ session[s].access_token # None)
              => IF \E p \in active_connections : p[1] = session[s].access_token
                 THEN /\ trig'[r].res = "pending"
                      /\ <<session[s].access_token, trig'[r].target>>
                            \in active_connections
                 ELSE trig'[r].res = "noop" /\ trig'[r].target = NoSocket
        /\ \A r \in Requests :
              (trig'[r].res = "raised" /\ trig[r].res # "raised")
              => trig[r].pc = "sending"
        /\ \A r \in Requests, w \in Sockets :
              (Completes(r) /\ delivered'[w] # delivered[w]) => w = trig[r].target
        /\ \A w \in Sockets :
              accepted(w)
              => /\ Lookup(active_connections', ws[w].token) = {w}
                 /\ \A k \in Tokens \ {ws[w].token} :
                       Lookup(active_connections', k) = Lookup(active_connections, k)
        /\ \A w \in Sockets :
              on_disconnect(w)
              => /\ Lookup(active_connections', ws[w].token) = {}
                 /\ \A k \in Tokens \ {ws[w].token} :
                       Lookup(active_connections', k) = Lookup(active_connections, k)
        /\ (\A w \in Sockets : ~accepted(w) /\ ~on_disconnect(w))
              => active_connections' = active_connections
      ]_vars

\* a send is suspended while a later connect has replaced its websocket
C19_Witness ==
    \E r \in Requests :
        /\ trig[r].pc = "sending"
        /\ trig[r].target \in replaced
        /\ Lookup(active_connections, trig[r].token) # {}
        /\ trig[r].target \notin Lookup(active_connections, trig[r].token)

\* C20: a trigger of session s never starts a send to a websocket that
\* another session registered under a token different from the one s holds,
\* and a message is only ever delivered to the websocket its send started
\* with, which was registered under the token the trigger acted with.
C20_SessionIsolation ==
    [][ /\ \A r \in Requests, s \in Sessions, w \in Sockets :
              ( /\ trigger_get_data(r, s)
                /\ ws[w].session # s
                /\ ws[w].token # session[s].access_token )
              => trig'[r].target # w
        /\ \A w \in Sockets :
              delivered'[w] # delivered[w]
              => \E r \in Requests :
                    /\ trig[r].pc = "sending" /\ trig[r].target = w
                    /\ trig[r].token = ws[w].token
                    /\ delivered'[w] =
                          Append(delivered[w], [req |-> r, kind |-> trig[r].msg.kind,
                                                body |-> trig[r].msg.body])
      ]_vars

\* a push was delivered while another session's websocket, registered under
\* another token, was open, reachable and received nothing
C20_Witness ==
    \E w \in Sockets : \E v \in Sockets \ {w} :
        /\ delivered[w] # <<>>
        /\ ws[v].pc = "open" /\ ws[v].alive
        /\ ws[v].session # ws[w].session
        /\ ws[v].token # ws[w].token
        /\ <<ws[v].token, v>> \in active_connections
        /\ delivered[v] = <<>>

====
